---- MODULE Spec2Model ----
(***************************************************************************)
(* News / price alignment and correlation pipeline                         *)
(* (NewsStockCorrelation, src/src/news_stock_correlation.py).              *)
(*                                                                         *)
(* Dates are day ordinals.  A float is a record [kind, num, den]:          *)
(* kind "num" is the exact rational num/den (den > 0, lowest terms),       *)
(* kind "nan" is NaN and kind "inf" is +infinity.  Data frames are         *)
(* sequences of records, one record per row, one field per column.         *)
(***************************************************************************)
EXTENDS Integers, Sequences, FiniteSets, TLC

VARIABLES news_file, stock_file, news_df, stock_df, scan, daily_sentiment,
          merged_df, corr, pc, calls, files, result

vars == <<news_file, stock_file, news_df, stock_df, scan, daily_sentiment,
          merged_df, corr, pc, calls, files, result>>

(***************************************************************************)
(* Bounds of the model                                                     *)
(***************************************************************************)
MaxNews == 3
MaxBars == 3
MaxDay == 2

Days == 0 .. MaxDay
\* stand-in for datetime.date.max: date + timedelta(days=1) raises
\* OverflowError on it
DateMax == MaxDay + 2
Headlines == {"negative", "positive"}
Closes == {0, 1, 2}

SeqsUpTo(S, n) == UNION {[1 .. k -> S] : k \in 0 .. n}

(***************************************************************************)
(* Arithmetic helpers                                                      *)
(***************************************************************************)
Abs(x) == IF x < 0 THEN -x ELSE x

RECURSIVE Gcd(_, _)
Gcd(a, b) == IF b = 0 THEN a ELSE Gcd(b, a % b)

NaN == [kind |-> "nan", num |-> 0, den |-> 0]
Inf == [kind |-> "inf", num |-> 1, den |-> 0]
\* the rational n/d, d > 0, in lowest terms
Num(n, d) ==
    LET g == Gcd(Abs(n), d)
    IN  [kind |-> "num", num |-> n \div g, den |-> d \div g]

SetMin(S) == CHOOSE x \in S : \A y \in S : x <= y
SetMax(S) == CHOOSE x \in S : \A y \in S : y <= x

RECURSIVE SumSeq(_)
SumSeq(s) == IF s = <<>> THEN 0 ELSE Head(s) + SumSeq(Tail(s))

\* the elements of S in ascending order
RECURSIVE SortedSeq(_)
SortedSeq(S) ==
    IF S = {} THEN <<>> ELSE <<SetMin(S)>> \o SortedSeq(S \ {SetMin(S)})

(***************************************************************************)
(* The value run_analysis returns                                          *)
(***************************************************************************)
\* A correlation coefficient r is sign * sqrt(sq_num / sq_den) (kind "num")
\* or NaN (kind "nan"); the p-value is kept as "nan", "one" (exactly 1.0) or
\* "num" (some number in [0, 1]).
NoCorr == [kind |-> "none", sign |-> 0, sq_num |-> 0, sq_den |-> 1, p_value |-> "none"]

\* run_analysis has not returned
NoResult ==
    [status |-> "pending", error |-> "", symbol |-> "", correlation |-> NoCorr,
     num_observations |-> 0, merged_data_path |-> "", visualization_path |-> ""]

\* {"error": str(e)}
ErrorResult(msg) == [NoResult EXCEPT !.status = "error", !.error = msg]

(***************************************************************************)
(* load_data                                                               *)
(***************************************************************************)
required_news_cols == {"date", "headline", "publisher"}
required_stock_cols == {"Date", "Close"}

\* pd.read_csv(..., parse_dates=[col]) raises when col is not in the file
ReadCsvOk(file, date_col) == date_col \in file.cols

NewsColsOk(cols) == required_news_cols \subseteq cols

StockColsOkNoClose(cols) == "Date" \in cols
StockColsOk(cols) == required_stock_cols \subseteq cols

\* the value load_data returns
LoadDataOk ==
    /\ ReadCsvOk(news_file, "date")
    /\ NewsColsOk(news_file.cols)
    /\ ReadCsvOk(stock_file, "Date")
    /\ StockColsOk(stock_file.cols)

\* run_analysis up to and including "if not self.load_data(): return"
RunAnalysis ==
    /\ pc = "start"
    /\ calls' = calls \cup {"load_data"}
    /\ news_df' = IF ReadCsvOk(news_file, "date") THEN news_file.rows ELSE news_df
    /\ stock_df' = IF /\ ReadCsvOk(news_file, "date")
                      /\ NewsColsOk(news_file.cols)
                      /\ ReadCsvOk(stock_file, "Date")
                   THEN stock_file.rows ELSE stock_df
    /\ IF LoadDataOk
       THEN /\ pc' = "align_dates"
            /\ UNCHANGED result
       ELSE /\ pc' = "done"
            /\ result' = ErrorResult("Data loading failed")
    /\ UNCHANGED <<news_file, stock_file, scan, daily_sentiment, merged_df, corr, files>>

(***************************************************************************)
(* align_dates                                                             *)
(***************************************************************************)
\* self.stock_df['Date'].dt.date.unique()
TradingDays(df) == {df[i].Date : i \in DOMAIN df}

NextDaySkipping(date) == date + 2
\* date += timedelta(days=1)
NextDay(date) == date + 1

NoScan == [row |-> 0, date |-> 0, out |-> <<>>]

WithAligned(df, out) ==
    [i \in DOMAIN df |->
        [date |-> df[i].date, headline |-> df[i].headline, aligned_date |-> out[i]]]

\* align_dates up to the first call of adjust_to_trading_day by apply.
\* Whether .dt accepts the Date column of a price file without rows depends
\* on the dtype read_csv gave it: either outcome can happen.
AlignDates ==
    /\ pc = "align_dates"
    /\ calls' = calls \cup {"align_dates"}
    /\ \E dt_ok \in (IF stock_df = <<>> THEN BOOLEAN ELSE {TRUE}) :
         IF ~dt_ok
         THEN /\ pc' = "done"
              /\ result' = ErrorResult("AttributeError")
              /\ UNCHANGED <<news_df, scan>>
         ELSE IF news_df = <<>>
         THEN /\ pc' = "analyze_sentiment"
              /\ news_df' = WithAligned(news_df, <<>>)
              /\ UNCHANGED <<result, scan>>
         ELSE /\ pc' = "adjust_to_trading_day"
              /\ scan' = [row |-> 1, date |-> news_df[1].date, out |-> <<>>]
              /\ UNCHANGED <<result, news_df>>
    /\ UNCHANGED <<news_file, stock_file, stock_df, daily_sentiment, merged_df, corr, files>>

\* one iteration of "while date not in trading_days: date += timedelta(days=1)"
AdjustAdvance ==
    /\ pc = "adjust_to_trading_day"
    /\ scan.date \notin TradingDays(stock_df)
    /\ IF scan.date >= DateMax
       THEN /\ pc' = "done"
            /\ result' = ErrorResult("OverflowError")
            /\ scan' = NoScan
       ELSE /\ scan' = [scan EXCEPT !.date = NextDay(scan.date)]
            /\ UNCHANGED <<pc, result>>
    /\ UNCHANGED <<news_file, stock_file, news_df, stock_df, daily_sentiment,
                   merged_df, corr, calls, files>>

\* the loop exits: "return date"; apply goes on with the next row, and after
\* the last row the column aligned_date is assigned
AdjustReturn ==
    /\ pc = "adjust_to_trading_day"
    /\ scan.date \in TradingDays(stock_df)
    /\ LET out == Append(scan.out, scan.date)
       IN  IF scan.row = Len(news_df)
           THEN /\ news_df' = WithAligned(news_df, out)
                /\ scan' = NoScan
                /\ pc' = "analyze_sentiment"
           ELSE /\ scan' = [row |-> scan.row + 1,
                            date |-> news_df[scan.row + 1].date,
                            out |-> out]
                /\ UNCHANGED <<news_df, pc>>
    /\ UNCHANGED <<news_file, stock_file, stock_df, daily_sentiment, merged_df,
                   corr, calls, files, result>>

(***************************************************************************)
(* analyze_sentiment                                                       *)
(***************************************************************************)
\* TextBlob(str(text)).sentiment.polarity, a score in [-1, 1]
get_sentiment(text) ==
    CASE text = "negative" -> -1
      [] text = "neutral" -> 0
      [] text = "positive" -> 1

AnalyzeSentiment ==
    /\ pc = "analyze_sentiment"
    /\ calls' = calls \cup {"analyze_sentiment"}
    /\ news_df' = [i \in DOMAIN news_df |->
                     [date |-> news_df[i].date,
                      headline |-> news_df[i].headline,
                      aligned_date |-> news_df[i].aligned_date,
                      sentiment |-> get_sentiment(news_df[i].headline)]]
    /\ pc' = "calculate_daily_metrics"
    /\ UNCHANGED <<news_file, stock_file, stock_df, scan, daily_sentiment,
                   merged_df, corr, files, result>>

(***************************************************************************)
(* calculate_daily_metrics                                                 *)
(***************************************************************************)
\* the sentiment column of the rows of one group, in row order
RECURSIVE GroupSentiments(_, _)
GroupSentiments(df, key) ==
    IF df = <<>> THEN <<>>
    ELSE (IF Head(df).aligned_date = key THEN <<Head(df).sentiment>> ELSE <<>>)
         \o GroupSentiments(Tail(df), key)

AggFirst(values) ==
    [avg_sentiment |-> Num(Head(values), 1), news_count |-> Len(values)]
\* .agg(['mean', 'count']) of one group
Agg(values) ==
    [avg_sentiment |-> Num(SumSeq(values), Len(values)), news_count |-> Len(values)]

\* self.news_df.groupby('aligned_date')['sentiment'].agg(['mean', 'count']):
\* one row per distinct key, keys ascending
GroupByAgg(df) ==
    LET keys == SortedSeq({df[i].aligned_date : i \in DOMAIN df})
    IN  [k \in DOMAIN keys |->
            LET a == Agg(GroupSentiments(df, keys[k]))
            IN  [aligned_date |-> keys[k],
                 avg_sentiment |-> a.avg_sentiment,
                 news_count |-> a.news_count]]

\* one element of Series.pct_change() * 100: cur / prev - 1, times 100
PctOf(prev, cur) ==
    IF prev = 0
    THEN (IF cur = 0 THEN NaN ELSE Inf)
    ELSE Num((cur - prev) * 100, prev)

\* self.stock_df['Close'].pct_change() * 100, in the row order of the frame
PctChange(df) ==
    [i \in DOMAIN df |-> IF i = 1 THEN NaN ELSE PctOf(df[i - 1].Close, df[i].Close)]

WithReturns(df) ==
    [i \in DOMAIN df |->
        [Date |-> df[i].Date, Close |-> df[i].Close,
         daily_return |-> PctChange(df)[i], date_only |-> df[i].Date]]

\* the rows of the right frame that match one row of the left frame
RECURSIVE MatchRows(_, _)
MatchRows(l, right) ==
    IF right = <<>> THEN <<>>
    ELSE (IF Head(right).date_only = l.aligned_date
          THEN <<[avg_sentiment |-> l.avg_sentiment,
                  news_count |-> l.news_count,
                  date_only |-> Head(right).date_only,
                  daily_return |-> Head(right).daily_return,
                  Close |-> Head(right).Close]>>
          ELSE <<>>)
         \o MatchRows(l, Tail(right))

\* pd.merge(left, right, left_index=True, right_on='date_only', how='inner'):
\* the order of the left keys is kept
RECURSIVE Merge(_, _)
Merge(left, right) ==
    IF left = <<>> THEN <<>>
    ELSE MatchRows(Head(left), right) \o Merge(Tail(left), right)

IsNaN(x) == x.kind = "nan"
\* a row dropna(subset=['daily_return']) keeps
NotNa(row) == ~IsNaN(row.daily_return)

DropNa(df) == SelectSeq(df, NotNa)

CalculateDailyMetrics ==
    /\ pc = "calculate_daily_metrics"
    /\ calls' = calls \cup {"calculate_daily_metrics"}
    /\ daily_sentiment' = GroupByAgg(news_df)
    /\ stock_df' = WithReturns(stock_df)
    /\ merged_df' = DropNa(Merge(daily_sentiment', stock_df'))
    /\ pc' = "calculate_correlation"
    /\ UNCHANGED <<news_file, stock_file, news_df, scan, corr, files, result>>

(***************************************************************************)
(* calculate_correlation                                                   *)
(***************************************************************************)
Sign(x) == IF x > 0 THEN 1 ELSE IF x < 0 THEN -1 ELSE 0

\* self.merged_df['avg_sentiment'] and self.merged_df['daily_return']
AvgSentimentColumn(df) == [i \in DOMAIN df |-> df[i].avg_sentiment]
DailyReturnColumn(df) == [i \in DOMAIN df |-> df[i].daily_return]

\* (x == x[0]).all()
IsConstant(x) == \A i \in DOMAIN x : x[i] = x[1]
HasInf(x) == \E i \in DOMAIN x : x[i].kind = "inf"

RECURSIVE DenProduct(_)
DenProduct(x) == IF x = <<>> THEN 1 ELSE Head(x).den * DenProduct(Tail(x))

\* the finite column x times a positive common denominator: r does not change
Scaled(x) ==
    [i \in DOMAIN x |-> x[i].num * (DenProduct(x) \div x[i].den)]

Products(a, b) == [i \in DOMAIN a |-> a[i] * b[i]]

\* np.sign(x[1] - x[0]) for floats that are not equal
SignOfDifference(a, b) ==
    IF b.kind = "inf" THEN 1
    ELSE IF a.kind = "inf" THEN -1
    ELSE Sign(b.num * a.den - a.num * b.den)

NanCorr == [kind |-> "nan", sign |-> 0, sq_num |-> 0, sq_den |-> 1, p_value |-> "nan"]

\* r of two finite columns that are not constant
PearsonValue(x, y) ==
    LET n == Len(x)
        X == Scaled(x)
        Y == Scaled(y)
        cov == n * SumSeq(Products(X, Y)) - SumSeq(X) * SumSeq(Y)
        varx == n * SumSeq(Products(X, X)) - SumSeq(X) * SumSeq(X)
        vary == n * SumSeq(Products(Y, Y)) - SumSeq(Y) * SumSeq(Y)
        sq == Num(cov * cov, varx * vary)
    IN  [kind |-> "num", sign |-> Sign(cov), sq_num |-> sq.num, sq_den |-> sq.den,
         p_value |-> "num"]

\* scipy.stats.pearsonr(x, y): the outcomes it can have, each either a raised
\* exception or a returned pair.  A column holding inf makes the norm of the
\* centred column raise ValueError in some releases and gives NaN in others.
pearsonr(x, y) ==
    IF Len(x) < 2
    THEN {[raised |-> TRUE, value |-> NoCorr]}
    ELSE IF IsConstant(x) \/ IsConstant(y)
    THEN {[raised |-> FALSE, value |-> NanCorr]}
    ELSE IF Len(x) = 2
    THEN {[raised |-> FALSE,
           value |-> [kind |-> "num",
                      sign |-> SignOfDifference(x[1], x[2]) * SignOfDifference(y[1], y[2]),
                      sq_num |-> 1, sq_den |-> 1, p_value |-> "one"]]}
    ELSE IF HasInf(y)
    THEN {[raised |-> TRUE, value |-> NoCorr], [raised |-> FALSE, value |-> NanCorr]}
    ELSE {[raised |-> FALSE, value |-> PearsonValue(x, y)]}

CalculateCorrelation ==
    /\ pc = "calculate_correlation"
    /\ calls' = calls \cup {"calculate_correlation"}
    /\ \E outcome \in pearsonr(AvgSentimentColumn(merged_df),
                               DailyReturnColumn(merged_df)) :
         IF outcome.raised
         THEN /\ pc' = "done"
              /\ result' = ErrorResult("ValueError")
              /\ UNCHANGED corr
         ELSE /\ pc' = "to_csv"
              /\ corr' = outcome.value
              /\ UNCHANGED result
    /\ UNCHANGED <<news_file, stock_file, news_df, stock_df, scan, daily_sentiment,
                   merged_df, files>>

(***************************************************************************)
(* run_analysis after the correlation                                      *)
(***************************************************************************)
\* self.merged_df.to_csv(merged_path, index=False); writing the file can fail
SaveMergedData ==
    /\ pc = "to_csv"
    /\ \E written \in BOOLEAN :
         IF written
         THEN /\ files' = files \cup {"merged_csv"}
              /\ pc' = "visualize_results"
              /\ UNCHANGED result
         ELSE /\ pc' = "done"
              /\ result' = ErrorResult("OSError")
              /\ UNCHANGED files
    /\ UNCHANGED <<news_file, stock_file, news_df, stock_df, scan, daily_sentiment,
                   merged_df, corr, calls>>

\* the dictionary run_analysis returns at its end
Results ==
    [status |-> "results", error |-> "", symbol |-> "SYM", correlation |-> corr,
     num_observations |-> Len(merged_df),
     merged_data_path |-> "SYM_news_stock_merged.csv",
     visualization_path |-> "SYM_correlation_plot.png"]

\* visualize_results(viz_path) and the return of run_analysis; the plotting
\* calls and savefig can raise
VisualizeResults ==
    /\ pc = "visualize_results"
    /\ calls' = calls \cup {"visualize_results"}
    /\ pc' = "done"
    /\ \E saved \in BOOLEAN :
         IF saved
         THEN /\ files' = files \cup {"plot_png"}
              /\ result' = Results
         ELSE /\ result' = ErrorResult("PlotError")
              /\ UNCHANGED files
    /\ UNCHANGED <<news_file, stock_file, news_df, stock_df, scan, daily_sentiment,
                   merged_df, corr>>

(***************************************************************************)
(* Specifications                                                          *)
(***************************************************************************)
InitRest ==
    /\ news_df = <<>>
    /\ stock_df = <<>>
    /\ scan = NoScan
    /\ daily_sentiment = <<>>
    /\ merged_df = <<>>
    /\ corr = NoCorr
    /\ pc = "start"
    /\ calls = {}
    /\ files = {}
    /\ result = NoResult

\* alignment only: every calendar and every news date, prices and texts fixed
InitAlign ==
    /\ news_file \in [cols : {required_news_cols},
                      rows : SeqsUpTo([date : Days, headline : {"positive"}], MaxNews)]
    /\ stock_file \in [cols : {required_stock_cols},
                       rows : SeqsUpTo([Date : Days, Close : {1}], MaxBars)]
    /\ InitRest

NextAlign == RunAnalysis \/ AlignDates \/ AdjustAdvance \/ AdjustReturn

SpecAlign == InitAlign /\ [][NextAlign]_vars

\* aggregation: every news table over every calendar, prices fixed
InitAggregate ==
    /\ news_file \in [cols : {required_news_cols},
                      rows : SeqsUpTo([date : Days, headline : Headlines], MaxNews)]
    /\ \E C \in SUBSET Days :
         stock_file = [cols |-> required_stock_cols,
                       rows |-> [i \in 1 .. Cardinality(C) |->
                                   [Date |-> SortedSeq(C)[i], Close |-> 1]]]
    /\ InitRest

NextAggregate == NextAlign \/ AnalyzeSentiment \/ CalculateDailyMetrics

SpecAggregate == InitAggregate /\ [][NextAggregate]_vars

Next ==
    \/ RunAnalysis
    \/ AlignDates
    \/ AdjustAdvance
    \/ AdjustReturn
    \/ AnalyzeSentiment
    \/ CalculateDailyMetrics
    \/ CalculateCorrelation
    \/ SaveMergedData
    \/ VisualizeResults

\* schema handling: every set of columns of both files, over every news table
\* and two price tables
InitLoad ==
    /\ news_file \in [cols : SUBSET required_news_cols,
                      rows : SeqsUpTo([date : Days, headline : Headlines], MaxNews)]
    /\ stock_file \in [cols : SUBSET required_stock_cols,
                       rows : {<<[Date |-> 0, Close |-> 1], [Date |-> 1, Close |-> 2],
                                 [Date |-> 2, Close |-> 1]>>,
                               <<[Date |-> 1, Close |-> 2], [Date |-> 2, Close |-> 0]>>}]
    /\ InitRest

SpecLoad == InitLoad /\ [][Next]_vars

\* every news table and every price table with all their columns, and the
\* tables of InitLoad
Init ==
    \/ /\ news_file \in [cols : {required_news_cols},
                         rows : SeqsUpTo([date : Days, headline : Headlines], MaxNews)]
       /\ stock_file \in [cols : {required_stock_cols},
                          rows : SeqsUpTo([Date : Days, Close : Closes], MaxBars)]
       /\ InitRest
    \/ InitLoad

Spec == Init /\ [][Next]_vars

(***************************************************************************)
(* Properties                                                              *)
(***************************************************************************)
Range(f) == {f[i] : i \in DOMAIN f}

\* the stages after align_dates has assigned the column aligned_date
Aligned ==
    \/ pc \in {"analyze_sentiment", "calculate_daily_metrics", "calculate_correlation",
               "to_csv", "visualize_results"}
    \/ pc = "done" /\ "analyze_sentiment" \in calls

\* the stages after calculate_daily_metrics has run
MetricsDone ==
    \/ pc \in {"calculate_correlation", "to_csv", "visualize_results"}
    \/ pc = "done" /\ "calculate_daily_metrics" \in calls

\* the dates adjust_to_trading_day has returned so far, by news row
AlignedSoFar ==
    IF pc = "adjust_to_trading_day" THEN scan.out
    ELSE IF Aligned THEN [i \in DOMAIN news_df |-> news_df[i].aligned_date]
    ELSE <<>>

\* the smallest trading day on or after t
NextTradingDay(C, t) == SetMin({d \in C : d >= t})

\* C1: every news date t that is not later than the last trading day is
\* stamped with the smallest trading day d >= t; a date that is a trading day
\* is kept, so an aligned date aligns to itself; and the alignment fails only
\* when some news date has no trading day on or after it.
C1_AlignSmallestTradingDay ==
    LET C == TradingDays(stock_df)
    IN  /\ \A i \in DOMAIN AlignedSoFar :
             LET t == news_df[i].date
             IN  (C # {} /\ t <= SetMax(C)) =>
                    /\ AlignedSoFar[i] = NextTradingDay(C, t)
                    /\ t \in C => AlignedSoFar[i] = t
                    /\ AlignedSoFar[i] \in C
        /\ pc = "adjust_to_trading_day" /\ C # {}
              /\ news_df[scan.row].date <= SetMax(C)
           => scan.date <= NextTradingDay(C, news_df[scan.row].date)
        /\ result.error = "OverflowError"
           => \E i \in DOMAIN news_df : C = {} \/ news_df[i].date > SetMax(C)

\* C1: the alignment has finished, one event was moved forward to a later
\* trading day and another one, dated on a trading day, was kept
C1_Witness ==
    /\ pc = "analyze_sentiment"
    /\ \E i \in DOMAIN news_df : news_df[i].aligned_date > news_df[i].date
    /\ \E i \in DOMAIN news_df : news_df[i].aligned_date = news_df[i].date

\* C2: for a news event dated after the last trading day (or with an empty
\* calendar) the scan stays within a bounded lookahead (it advances the date
\* no further than the day after the calendar's last day, or one day when the
\* calendar is empty), and the run ends in an AlignmentError error value.
C2_BoundedLookaheadAlignmentError ==
    LET C == TradingDays(stock_df)
    IN  /\ (/\ pc = "adjust_to_trading_day"
            /\ C # {}
            /\ scan.date > news_df[scan.row].date)
           => scan.date <= SetMax(C) + 1
        /\ pc = "adjust_to_trading_day" /\ C = {}
           => scan.date <= news_df[scan.row].date + 1
        /\ (/\ pc = "done"
            /\ "align_dates" \in calls
            /\ C # {}
            /\ \E i \in DOMAIN news_df : news_df[i].date > SetMax(C))
           => result.status = "error" /\ result.error = "AlignmentError"

\* the dates of the price rows are distinct and no close is zero
CleanPrices ==
    /\ Cardinality(TradingDays(stock_df)) = Len(stock_df)
    /\ \A i \in DOMAIN stock_df : stock_df[i].Close # 0

\* the price rows are in ascending order of date, dates repeated or not
AscendingPrices ==
    \A i \in DOMAIN stock_df : i > 1 => stock_df[i - 1].Date <= stock_df[i].Date

\* C3: the bar of the first trading day has no return, and every other bar's
\* return is (close - previous close) / previous close * 100, the previous
\* close being that of the immediately preceding trading day.
C3_ReturnOverPrecedingTradingDay ==
    (MetricsDone /\ CleanPrices) =>
        \A i \in DOMAIN stock_df :
            LET earlier == {j \in DOMAIN stock_df : stock_df[j].Date < stock_df[i].Date}
            IN  IF earlier = {}
                THEN IsNaN(stock_df[i].daily_return)
                ELSE LET j == CHOOSE j \in earlier :
                                 \A k \in earlier : stock_df[k].Date <= stock_df[j].Date
                     IN  stock_df[i].daily_return
                            = Num((stock_df[i].Close - stock_df[j].Close) * 100,
                                  stock_df[j].Close)

\* C4: a bar whose previous close is 0 has no return, and no infinite or NaN
\* return is in the joined table whose columns calculate_correlation reads
\* (stated for price files in ascending order of distinct dates).
C4_ZeroCloseRecordExcluded ==
    (/\ MetricsDone
     /\ AscendingPrices
     /\ Cardinality(TradingDays(stock_df)) = Len(stock_df)) =>
        /\ \A i \in DOMAIN stock_df :
              (i > 1 /\ stock_df[i - 1].Close = 0) => IsNaN(stock_df[i].daily_return)
        /\ \A k \in DOMAIN merged_df : merged_df[k].daily_return.kind = "num"

\* the number of price bars whose return is set
ValidReturns == Cardinality({i \in DOMAIN stock_df : ~IsNaN(stock_df[i].daily_return)})

\* C5: the joined table holds no record without a return, every record's day
\* is in the sentiment summaries and in the price series, and it has at most
\* min(number of summaries, number of bars with a return) records (stated for
\* price files in ascending order of date without a zero close).
C5_JoinedRecords ==
    (/\ MetricsDone
     /\ AscendingPrices
     /\ \A i \in DOMAIN stock_df : stock_df[i].Close # 0) =>
        /\ \A k \in DOMAIN merged_df :
              /\ ~IsNaN(merged_df[k].daily_return)
              /\ \E j \in DOMAIN daily_sentiment :
                    daily_sentiment[j].aligned_date = merged_df[k].date_only
              /\ merged_df[k].date_only \in TradingDays(stock_df)
        /\ Len(merged_df) <= Len(daily_sentiment)
        /\ Len(merged_df) <= ValidReturns

Permuted(df, p) == [i \in DOMAIN df |-> df[p[i]]]

\* C6: there is exactly one summary per distinct aligned date; its news_count
\* is the number of events aligned to the date (at least 1, and the counts add
\* up to the number of events); its avg_sentiment is the sum of their scores
\* divided by that count; and every permutation of the events gives the same
\* set of summaries.
C6_DailyAggregation ==
    MetricsDone =>
        LET keys == {news_df[i].aligned_date : i \in DOMAIN news_df}
            events(d) == {i \in DOMAIN news_df : news_df[i].aligned_date = d}
        IN  /\ Len(daily_sentiment) = Cardinality(keys)
            /\ {daily_sentiment[k].aligned_date : k \in DOMAIN daily_sentiment} = keys
            /\ \A k \in DOMAIN daily_sentiment :
                  LET s == daily_sentiment[k]
                  IN  /\ s.news_count = Cardinality(events(s.aligned_date))
                      /\ s.news_count >= 1
                      /\ s.avg_sentiment.kind = "num"
                      /\ s.avg_sentiment.num * s.news_count
                            = s.avg_sentiment.den
                              * SumSeq(GroupSentiments(news_df, s.aligned_date))
            /\ SumSeq([k \in DOMAIN daily_sentiment |-> daily_sentiment[k].news_count])
                  = Len(news_df)
            /\ \A p \in Permutations(DOMAIN news_df) :
                  Range(GroupByAgg(Permuted(news_df, p))) = Range(daily_sentiment)

\* C6: the metrics were calculated from two trading days with events, one of
\* them with two events whose scores differ
C6_Witness ==
    /\ pc = "calculate_correlation"
    /\ Len(daily_sentiment) >= 2
    /\ \E k \in DOMAIN daily_sentiment :
          /\ daily_sentiment[k].news_count = 2
          /\ daily_sentiment[k].avg_sentiment = Num(0, 1)

\* C7: with at least 2 joined records and a constant avg_sentiment or return
\* column, run_analysis returns an error value, never a results record
\* (stated for price files in ascending order of distinct dates without a
\* zero close).
C7_ConstantColumnIsAnError ==
    (/\ pc = "done"
     /\ AscendingPrices
     /\ CleanPrices
     /\ "calculate_correlation" \in calls
     /\ Len(merged_df) >= 2
     /\ \/ IsConstant(AvgSentimentColumn(merged_df))
        \/ IsConstant(DailyReturnColumn(merged_df)))
    => result.status = "error"

\* C8: when a file lacks a required column, only load_data is ever called,
\* nothing is written, and the run ends with the loading error value.
C8_SchemaFailureStopsTheRun ==
    (\/ ~(required_news_cols \subseteq news_file.cols)
     \/ ~(required_stock_cols \subseteq stock_file.cols))
    => /\ calls \subseteq {"load_data"}
       /\ files = {}
       /\ pc \in {"start", "done"}
       /\ pc = "done" =>
             /\ result.status = "error"
             /\ result.error = "Data loading failed"
             /\ merged_df = <<>>

\* C8: a run has ended on a price file that has Date but no Close, with a
\* complete news file that has rows
C8_Witness ==
    /\ pc = "done"
    /\ result.error = "Data loading failed"
    /\ news_file.cols = required_news_cols
    /\ stock_file.cols = {"Date"}
    /\ Len(news_file.rows) > 0

\* C9: the joined table, and so the merged file, lists its records in
\* strictly ascending order of trading day (stated for price files in
\* ascending order of date without a zero close).
C9_StrictlyAscendingDays ==
    (/\ MetricsDone
     /\ AscendingPrices
     /\ \A i \in DOMAIN stock_df : stock_df[i].Close # 0) =>
        \A k \in DOMAIN merged_df :
            k > 1 => merged_df[k - 1].date_only < merged_df[k].date_only

\* C10: a run ends either with a complete results record and both files
\* written, or with an error value and no merged file written.
C10_NoPartialOutcome ==
    pc = "done" =>
        \/ /\ result.status = "results"
           /\ files = {"merged_csv", "plot_png"}
        \/ /\ result.status = "error"
           /\ "merged_csv" \notin files
====
